---- MODULE Spec2Model ----
(***************************************************************************)
(* A model of tvs.py: the cache resolver (get_root), the connectivity      *)
(* probe, the follow registry kept in two directories of the permanent     *)
(* store, the temporary caches, the command dispatcher, the episode scan   *)
(* (step_episode), list_episodes and check_followed_shows.                 *)
(*                                                                         *)
(* Strings are sequences of one-character strings.  A directory is a       *)
(* function from the file names it holds to what each holds: a regular     *)
(* file is [doc, mtime], a symbolic link is the name it points to.  Time   *)
(* is counted in ticks, TicksPerDay of them to a calendar day.             *)
(***************************************************************************)
EXTENDS Integers, Sequences, FiniteSets, TLC

VARIABLES
    nameDir,        \* STORAGE_DIR_NAME: name key -> regular file
    idDir,          \* STORAGE_DIR_ID: id key -> name key the symlink points to
    cacheShows,     \* CACHE_DIR_SHOWS: id key -> regular file
    cacheResearch,  \* CACHE_DIR_RESEARCH: search key -> regular file
    glob_internet_connection_available,   \* the flag, as the last run left it
    now,            \* the wall clock, in ticks
    catalog,        \* the remote service: id key -> show name or NoName
    last,           \* what the last command did
    rt,             \* follow-then-unfollow bookkeeping
    stepIn,         \* step_episode: document, today, delay, strict_delay, reverse
    stepOut,        \* step_episode: what it returned
    listOut,        \* list_episodes and the printing of what it returned
    chk             \* what the last run of check_followed_shows did

vars == <<nameDir, idDir, cacheShows, cacheResearch,
          glob_internet_connection_available, now, catalog,
          last, rt, stepIn, stepOut, listOut, chk>>

fsVars == <<nameDir, idDir, cacheShows, cacheResearch,
            glob_internet_connection_available, now, catalog,
            last, rt, chk>>

stepVars == <<stepIn, stepOut, listOut>>

----------------------------------------------------------------------------
(* Bounds *)

MaxId       == 2    \* show identifiers are 1..MaxId
MaxTime     == 2    \* the clock runs over 0..MaxTime
TicksPerDay == 2    \* clock ticks in one calendar day
MaxEpisodes == 3    \* episodes of a document, over all its seasons
MaxDay      == 2    \* air dates and today are days 0..MaxDay
MaxDelay    == 1    \* --delay is -MaxDelay..MaxDelay

(* Program constants *)

CACHE_LIFETIME == 1     \* datetime.timedelta(days=1)

\* ElementTree gives the text None to an element that holds no text; a name
\* that is a string is never empty, so the empty string stands for None.
NoName == <<>>

Ids       == 1..MaxId
\* root.find("name") is None: the document has no name element.
Missing == <<"missing">>

NameVals  == {NoName, Missing, <<"A">>, <<"a">>, <<"b">>}
Terms     == {<<"A", " ">>, <<"a", " ">>}

----------------------------------------------------------------------------
(* Strings *)

Digits == <<"0", "1", "2", "3", "4", "5", "6", "7", "8", "9">>

RECURSIVE Str(_)
Str(n) == IF n < 10 THEN <<Digits[n + 1]>>
                    ELSE Str(n \div 10) \o <<Digits[(n % 10) + 1]>>

LowerChar(c) == CASE c = "A" -> "a"
                  [] c = "B" -> "b"
                  [] OTHER   -> c

Lower(s) == [i \in DOMAIN s |-> LowerChar(s[i])]

QuotePlusChar(c) == IF c = " " THEN "+" ELSE c

QuotePlus(s) == [i \in DOMAIN s |-> QuotePlusChar(s[i])]

IdKeys == {Str(i) : i \in Ids}

----------------------------------------------------------------------------
(* Directories *)

EmptyDir == <<>>

Put(dir, k, v) == [x \in (DOMAIN dir) \cup {k} |-> IF x = k THEN v ELSE dir[x]]

Remove(dir, k) == [x \in (DOMAIN dir) \ {k} |-> dir[x]]

File(doc, t) == [doc |-> doc, mtime |-> t]

\* The four folders as a command finds them.
Stores == [nameDir |-> nameDir, idDir |-> idDir,
           cacheShows |-> cacheShows, cacheResearch |-> cacheResearch]

\* os.path.exists follows symbolic links: a dangling link does not exist.
ExistsIn(fs, k) == k \in DOMAIN fs.idDir /\ fs.idDir[k] \in DOMAIN fs.nameDir

ExistsId(k) == ExistsIn(Stores, k)

Date(t) == t \div TicksPerDay

----------------------------------------------------------------------------
(* The remote service *)

\* A document: full_show_info of a show (showid, name), or the result list of a
\* search (the query it answers).  ver tells two revisions of a document apart:
\* the service revises what it serves at every tick of the clock.
ShowDoc(k, n, v) == [kind |-> "show", key |-> k, name |-> n, ver |-> v]

RemoteShow(k) == ShowDoc(k, catalog[k], now)

RemoteSearch(k) == [kind |-> "search", key |-> k, name |-> NoName, ver |-> now]

NoDoc == [kind |-> "none", key |-> <<>>, name |-> NoName, ver |-> 0]

Remote(cache_dir, k) == IF cache_dir = "shows" THEN RemoteShow(k) ELSE RemoteSearch(k)

----------------------------------------------------------------------------
(* The connectivity probe.  flag: glob_internet_connection_available as    *)
(* the call finds it; probeOk: whether urlopen reaches the host.  When     *)
(* urlopen raises, the except clause evaluates urllib.URLError, which the  *)
(* urllib package does not have: the call ends in AttributeError.          *)

internet_connection_available(flag, probeOk) ==
    IF ~flag
    THEN IF probeOk
         THEN [flag |-> TRUE,  res |-> "True",           events |-> <<"probe_ok">>]
         ELSE [flag |-> FALSE, res |-> "AttributeError", events |-> <<"probe_fail">>]
    ELSE [flag |-> TRUE, res |-> "True", events |-> <<"probe_memo">>]

----------------------------------------------------------------------------
(* The cache resolver *)

\* IsStale by the time elapsed since the write: CACHE_LIFETIME days of
\* TicksPerDay ticks.
IsStale_elapsed(file) == now - file.mtime >= CACHE_LIFETIME * TicksPerDay

\* IsStale without the lifetime: an entry is stale from the day it is written.
IsStale_no_lifetime(file) == Date(file.mtime) <= Date(now)

\* date(mtime) + CACHE_LIFETIME <= today
IsStale(file) == Date(file.mtime) + CACHE_LIFETIME <= Date(now)

\* The outcome of get_root: the stores and the flag it leaves, the error it
\* raised ("none": it returned root), and what it did on the way.
GROut(nd, cs, cr, flag, err, root, src, existed, stale, events) ==
    [nameDir |-> nd, cacheShows |-> cs, cacheResearch |-> cr, flag |-> flag,
     err |-> err, root |-> root, called |-> TRUE, src |-> src,
     existed |-> existed, stale |-> stale, events |-> events]

\* urllib.request.urlretrieve(url + parameter, file): fetchOk tells whether the
\* connection is made; when it is not, URLError is raised before the file is
\* opened.  The permanent file is written through the symbolic link.
get_root_permanent(fs, key, flag, probeOk, fetchOk) ==
    LET target == fs.idDir[key]
        file   == fs.nameDir[target]
        stale  == IsStale(file)
        ica    == internet_connection_available(flag, probeOk)
        keep(flg, err, root, events) ==
            GROut(fs.nameDir, fs.cacheShows, fs.cacheResearch, flg, err, root,
                  "permanent", TRUE, stale, events)
    IN  IF ~stale
        THEN keep(flag, "none", file.doc, <<>>)
        ELSE IF ica.res # "True"
        THEN keep(ica.flag, ica.res, NoDoc, ica.events)
        ELSE IF ~fetchOk
        THEN keep(ica.flag, "URLError", NoDoc, ica.events \o <<"fetch_fail">>)
        ELSE GROut(Put(fs.nameDir, target, File(RemoteShow(key), now)),
                   fs.cacheShows, fs.cacheResearch, ica.flag, "none",
                   RemoteShow(key),
                   "permanent", TRUE, stale, ica.events \o <<"fetch_ok">>)

get_root_temporary(fs, cache_dir, key, flag, probeOk, fetchOk) ==
    LET dir     == IF cache_dir = "shows" THEN fs.cacheShows ELSE fs.cacheResearch
        existed == key \in DOMAIN dir
        stale   == existed /\ IsStale(dir[key])
        ica     == internet_connection_available(flag, probeOk)
        keep(flg, err, root, events) ==
            GROut(fs.nameDir, fs.cacheShows, fs.cacheResearch, flg, err, root,
                  "temporary", existed, stale, events)
        fetch(flg, events) ==
            IF ~fetchOk
            THEN keep(flg, "URLError", NoDoc, events \o <<"fetch_fail">>)
            ELSE LET new == Put(dir, key, File(Remote(cache_dir, key), now))
                 IN  GROut(fs.nameDir,
                           IF cache_dir = "shows" THEN new ELSE fs.cacheShows,
                           IF cache_dir = "shows" THEN fs.cacheResearch ELSE new,
                           flg, "none", Remote(cache_dir, key),
                           "temporary", existed, stale, events \o <<"fetch_ok">>)
    IN  IF ~existed
        THEN fetch(flag, <<>>)
        ELSE IF ~stale
        THEN keep(flag, "none", dir[key].doc, <<>>)
        ELSE IF ica.res # "True"
        THEN keep(ica.flag, ica.res, NoDoc, ica.events)
        ELSE fetch(ica.flag, ica.events)

\* fs: the folders as the call finds them.
get_root(fs, cache_dir, parameter, flag, probeOk, fetchOk) ==
    LET key == QuotePlus(Lower(parameter))
    IN  IF cache_dir = "shows" /\ ExistsIn(fs, key)
        THEN get_root_permanent(fs, key, flag, probeOk, fetchOk)
        ELSE get_root_temporary(fs, cache_dir, key, flag, probeOk, fetchOk)

----------------------------------------------------------------------------------------------------------------------------------------
(* The episode scan.  The root of a show document: name, status and,       *)
(* when the Episodelist element is there, its Season elements in document  *)
(* order, each with its no attribute and its episode elements in document  *)
(* order.  The text of an airdate element that is a calendar date is the   *)
(* number of its day; Malformed is a text that is no date (0000-00-00).    *)

Malformed == -1

\* The text of an airdate element that holds no text: ElementTree gives None.
NoText == -2

\* The episode has no airdate element: episode.find("airdate") is None.
NoElement == -3

\* datetime.datetime.strptime(text, "%Y-%m-%d").date(): ValueError when the
\* text is not a date, TypeError when the argument is None.
strptime(text) ==
    IF text = Malformed THEN [err |-> "ValueError", date |-> 0]
    ELSE IF text = NoText THEN [err |-> "TypeError", date |-> 0]
    ELSE [err |-> "none", date |-> text]

\* str.lstrip("0")
RECURSIVE lstrip0(_)
lstrip0(str) == IF str # <<>> /\ Head(str) = "0" THEN lstrip0(Tail(str)) ELSE str

\* reversed(list)
reversed(list) == [i \in 1..Len(list) |-> list[Len(list) + 1 - i]]

StepOut(err, name, status, found, season, number, title, air_date) ==
    [on |-> TRUE, err |-> err, name |-> name, status |-> status,
     found |-> found, season |-> season, number |-> number, title |-> title,
     air_date |-> air_date]

\* The result that holds name and status only: "number" is not in ret.
StatusOnly(root) ==
    StepOut("none", root.name, root.status, FALSE, <<>>, <<>>, <<>>, Malformed)

\* step_episode left by the exception err: it returned nothing.
StepRaised(err) ==
    StepOut(err, NoName, <<>>, FALSE, <<>>, <<>>, <<>>, Malformed)

\* The test of an episode with `<' and `>' where the code has `<=' and `>='.
qualifies_strictly(air_date, comp_date, strict_delay, reverse) ==
    \/ ~reverse /\ ~strict_delay /\ air_date > comp_date
    \/ reverse /\ ~strict_delay /\ air_date < comp_date
    \/ strict_delay /\ air_date = comp_date

\* The test of an episode whose air date was parsed.
qualifies(air_date, comp_date, strict_delay, reverse) ==
    \/ ~reverse /\ ~strict_delay /\ air_date >= comp_date
    \/ reverse /\ ~strict_delay /\ air_date <= comp_date
    \/ strict_delay /\ air_date = comp_date

\* for episode in episodes: from the j-th on; rest is what follows the loop.
RECURSIVE scan_episodes(_, _, _, _, _, _, _, _)
scan_episodes(root, season, episodes, j, comp_date, strict_delay, reverse, rest) ==
    IF j > Len(episodes) THEN rest
    ELSE LET episode      == episodes[j]
             str_air_date == episode.airdate
             parsed       == strptime(str_air_date)
             next         == scan_episodes(root, season, episodes, j + 1,
                                           comp_date, strict_delay, reverse, rest)
         IN  \* episode.find("airdate").text, outside the try
             IF str_air_date = NoElement THEN StepRaised("AttributeError")
             ELSE IF parsed.err = "ValueError" THEN next  \* except ValueError: pass
             ELSE IF parsed.err # "none" THEN StepRaised(parsed.err)
             ELSE IF qualifies(parsed.date, comp_date, strict_delay, reverse)
             THEN StepOut("none", root.name, root.status, TRUE, season.no,
                          lstrip0(episode.seasonnum), episode.title, str_air_date)
             ELSE next

\* for season in seasons: from the i-th on.
RECURSIVE scan_seasons(_, _, _, _, _, _)
scan_seasons(root, seasons, i, comp_date, strict_delay, reverse) ==
    IF i > Len(seasons) THEN StatusOnly(root)
    ELSE LET season   == seasons[i]
             episodes == IF reverse THEN reversed(season.episodes)
                                    ELSE season.episodes
         IN  scan_episodes(root, season, episodes, 1, comp_date, strict_delay,
                           reverse,
                           scan_seasons(root, seasons, i + 1, comp_date,
                                        strict_delay, reverse))

\* step_episode on the root get_root gave; today is datetime.today().date().
step_episode(root, today, delay, strict_delay, reverse) ==
    LET \* reverse and -delay or delay
        dly       == IF reverse /\ -delay # 0 THEN -delay ELSE delay
        comp_date == today + dly
        seasons   == IF reverse THEN reversed(root.seasons) ELSE root.seasons
    IN  \* root.find("name").text
        IF root.name = Missing THEN StepRaised("AttributeError")
        ELSE IF root.name = NoName THEN StepRaised("InvalidIdentifier")
        ELSE IF ~root.has_list THEN StatusOnly(root)
        ELSE scan_seasons(root, seasons, 1, comp_date, strict_delay, reverse)

----------------------------------------------------------------------------
(* The documents the scan is run on: every list of at most MaxEpisodes     *)
(* episodes with air dates in AirDates, cut into seasons in every way;     *)
(* season s has no = s, its e-th episode has seasonnum 0e and a title of   *)
(* its own.                                                                *)

AirDates == {Malformed} \cup (0..MaxDay)

Flats == UNION {[1..n -> AirDates \X BOOLEAN] : n \in 0..MaxEpisodes}

\* flat[i] = <<air date, whether the episode opens a season>>
Starts(flat) == {i \in DOMAIN flat : i = 1 \/ flat[i][2]}

NthStart(flat, k) ==
    CHOOSE i \in Starts(flat) : Cardinality({j \in Starts(flat) : j <= i}) = k

SeasonEnd(flat, k) ==
    IF k < Cardinality(Starts(flat)) THEN NthStart(flat, k + 1) - 1 ELSE Len(flat)

Seasons(flat) ==
    [s \in 1..Cardinality(Starts(flat)) |->
        [no |-> Str(s),
         episodes |->
            [e \in 1..(SeasonEnd(flat, s) - NthStart(flat, s) + 1) |->
                [seasonnum |-> <<"0">> \o Str(e),
                 title     |-> <<s, e>>,
                 airdate   |-> flat[NthStart(flat, s) + e - 1][1]]]]]

Root(name, has_list, seasons) ==
    [name |-> name, status |-> <<"R">>, has_list |-> has_list, seasons |-> seasons]

----------------------------------------------------------------------------
(* list_episodes on the root get_root gave, and the list-episodes branch   *)
(* of the dispatcher that prints what it returned.                         *)

ListOut(err, name, status, has_seasons, seasons) ==
    [on |-> TRUE, err |-> err, name |-> name, status |-> status,
     has_seasons |-> has_seasons, seasons |-> seasons]

ListRaised(err) == ListOut(err, NoName, <<>>, FALSE, <<>>)

\* for episode in season.findall("episode"): the entries of one season
list_season(season) ==
    [e \in DOMAIN season.episodes |->
        [number   |-> lstrip0(season.episodes[e].seasonnum),
         title    |-> season.episodes[e].title,
         air_date |-> season.episodes[e].airdate]]

list_episodes(root) ==
    LET no_airdate ==
            \E s \in DOMAIN root.seasons : \E e \in DOMAIN root.seasons[s].episodes :
                root.seasons[s].episodes[e].airdate = NoElement
    IN  IF root.name = Missing THEN ListRaised("AttributeError")
        ELSE IF root.name = NoName THEN ListRaised("InvalidIdentifier")
        \* episode_list is None: ret has no "seasons" key
        ELSE IF ~root.has_list THEN ListOut("none", root.name, root.status, FALSE, <<>>)
        ELSE IF no_airdate THEN ListRaised("AttributeError")
        ELSE ListOut("none", root.name, root.status, TRUE,
                     [s \in DOMAIN root.seasons |->
                         [no |-> root.seasons[s].no,
                          episodes |-> list_season(root.seasons[s])]])

\* The exception that ends the list-episodes branch of the dispatcher
\* ("none": it printed everything), given what list_episodes returned or
\* raised.
print_list_episodes(ret) ==
    IF ret.err # "none" THEN ret.err
    \* list_episodes["seasons"]
    ELSE IF ~ret.has_seasons THEN "KeyError"
    \* "Air date: " + None
    ELSE IF \E s \in DOMAIN ret.seasons : \E e \in DOMAIN ret.seasons[s].episodes :
                ret.seasons[s].episodes[e].air_date = NoText
    THEN "TypeError"
    ELSE "none"

----------------------------------------------------------------------------
(* The commands.  Each gives the outcome of one run of the script: the     *)
(* stores and the flag it leaves, the exception it raised ("none": it      *)
(* returned ret) and what its call of get_root did.  A run is a process of *)
(* its own: the module sets glob_internet_connection_available to False    *)
(* when it is loaded.                                                      *)

FlagAtStart == FALSE

\* What a command keeps of its call of get_root.
GRInfo(cache_dir, parameter, g) ==
    [called |-> TRUE, scope |-> cache_dir, key |-> QuotePlus(Lower(parameter)),
     src |-> g.src, existed |-> g.existed, stale |-> g.stale,
     events |-> g.events, err |-> g.err, root |-> g.root]

NoGR == [called |-> FALSE, scope |-> "none", key |-> <<>>, src |-> "none",
         existed |-> FALSE, stale |-> FALSE, events |-> <<>>, err |-> "none",
         root |-> NoDoc]

Out(nd, idd, cs, cr, flag, err, ret, gr) ==
    [nameDir |-> nd, idDir |-> idd, cacheShows |-> cs, cacheResearch |-> cr,
     flag |-> flag, err |-> err, ret |-> ret, gr |-> gr]

\* The command raised err before it touched anything.
Refuse(err) ==
    Out(nameDir, idDir, cacheShows, cacheResearch,
        FlagAtStart, err, NoName, NoGR)

\* The command ends after get_root, with what get_root left.
AfterGR(cache_dir, parameter, g, err, ret) ==
    Out(g.nameDir, idDir, g.cacheShows, g.cacheResearch, g.flag, err, ret,
        GRInfo(cache_dir, parameter, g))

search(name, probeOk, fetchOk) ==
    LET g == get_root(Stores, "research", name, FlagAtStart, probeOk, fetchOk)
    IN  AfterGR("research", name, g, g.err, NoName)

info(ident, probeOk, fetchOk) ==
    LET g == get_root(Stores, "shows", Str(ident), FlagAtStart, probeOk, fetchOk)
    IN  IF g.err # "none" THEN AfterGR("shows", Str(ident), g, g.err, NoName)
        \* root.find("name").text
        ELSE IF g.root.name = Missing
        THEN AfterGR("shows", Str(ident), g, "AttributeError", NoName)
        ELSE IF g.root.name = NoName
        THEN AfterGR("shows", Str(ident), g, "InvalidIdentifier", NoName)
        ELSE AfterGR("shows", Str(ident), g, "none", g.root.name)

\* follow, from the name test on: g is what get_root gave.
follow_store(symlink_name, g) ==
    LET ret == g.root.name
        persistent_file_name == QuotePlus(Lower(ret))
        \* shutil.copyfile(cache_file_name, persistent_file_name)
        copied == Put(g.nameDir, persistent_file_name,
                      File(g.cacheShows[symlink_name].doc, now))
        gri == GRInfo("shows", symlink_name, g)
    IN  IF g.err # "none" THEN AfterGR("shows", symlink_name, g, g.err, NoName)
        \* root.find("name").text
        ELSE IF ret = Missing
        THEN AfterGR("shows", symlink_name, g, "AttributeError", NoName)
        ELSE IF ret = NoName
        THEN AfterGR("shows", symlink_name, g, "InvalidIdentifier", NoName)
        ELSE IF symlink_name \in DOMAIN idDir
        \* os.symlink on a name that is there (a dangling link), after the copy
        THEN Out(copied, idDir, g.cacheShows, g.cacheResearch, g.flag,
                 "FileExistsError", NoName, gri)
        ELSE Out(copied, Put(idDir, symlink_name, persistent_file_name),
                 g.cacheShows, g.cacheResearch, g.flag, "none", ret, gri)

\* follow with the test of the id-keyed record made after get_root.
follow_checks_late(ident, probeOk, fetchOk) ==
    LET symlink_name == Str(ident)
        g == get_root(Stores, "shows", symlink_name, FlagAtStart, probeOk, fetchOk)
    IN  IF g.err # "none" THEN AfterGR("shows", symlink_name, g, g.err, NoName)
        ELSE IF ExistsId(symlink_name)
        THEN AfterGR("shows", symlink_name, g, "AlreadyFollowing", NoName)
        ELSE follow_store(symlink_name, g)

follow(ident, probeOk, fetchOk) ==
    LET symlink_name == Str(ident)
    IN  IF ExistsId(symlink_name) THEN Refuse("AlreadyFollowing")
        ELSE follow_store(symlink_name,
                 get_root(Stores, "shows", symlink_name, FlagAtStart, probeOk, fetchOk))

unfollow(ident, probeOk, fetchOk) ==
    LET symlink_name == Str(ident)
        g   == get_root(Stores, "shows", symlink_name, FlagAtStart, probeOk, fetchOk)
        gri == GRInfo("shows", symlink_name, g)
    IN  IF ~ExistsId(symlink_name) THEN Refuse("NotFollowing")
        ELSE IF g.err # "none" THEN AfterGR("shows", symlink_name, g, g.err, NoName)
        \* root.find("name").text
        ELSE IF g.root.name = Missing
        THEN AfterGR("shows", symlink_name, g, "AttributeError", NoName)
        ELSE Out(Remove(g.nameDir, idDir[symlink_name]), Remove(idDir, symlink_name),
                 g.cacheShows, g.cacheResearch, g.flag, "none", g.root.name, gri)

\* refresh does not call get_root: it calls urlretrieve itself, on the
\* id-keyed name, whatever the age of the file and without the probe.
refresh(ident, fetchOk) ==
    LET permanent_cache_file_name == Str(ident)
        fetched(e) == [NoGR EXCEPT !.events = <<e>>]
    IN  IF ~ExistsId(permanent_cache_file_name) THEN Refuse("NotFollowing")
        ELSE IF ~fetchOk
        THEN Out(nameDir, idDir, cacheShows, cacheResearch,
                 FlagAtStart, "URLError", NoName, fetched("fetch_fail"))
        ELSE Out(Put(nameDir, idDir[permanent_cache_file_name],
                     File(RemoteShow(permanent_cache_file_name), now)),
                 idDir, cacheShows, cacheResearch,
                 FlagAtStart, "none", NoName, fetched("fetch_ok"))

\* The seasons the service lists for a show: show 1 has one season with an
\* episode on day 0 and one on day 1, show 2 one season with an episode on
\* day 0, and the document of any other show has no Episodelist element.
Schedule(k) ==
    LET episode(e, airdate) ==
            [seasonnum |-> <<"0", Digits[e + 1]>>, title |-> <<1, e>>,
             airdate |-> airdate]
    IN  IF k = <<"1">>
        THEN <<[no |-> <<"1">>, episodes |-> <<episode(1, 0), episode(2, 1)>>]>>
        ELSE IF k = <<"2">>
        THEN <<[no |-> <<"1">>, episodes |-> <<episode(1, 0)>>]>>
        ELSE <<>>

\* The root of a show document, as ElementTree.parse gives it.
RootOf(doc) ==
    Root(doc.name, Schedule(doc.key) # <<>>, Schedule(doc.key))

\* The list-episodes command: list_episodes(ident) and the printing.
list_episodes_run(ident, probeOk, fetchOk) ==
    LET g   == get_root(Stores, "shows", Str(ident), FlagAtStart, probeOk, fetchOk)
        ret == list_episodes(RootOf(g.root))
    IN  IF g.err # "none" THEN AfterGR("shows", Str(ident), g, g.err, NoName)
        ELSE AfterGR("shows", Str(ident), g, print_list_episodes(ret), ret.name)

\* step_episode(ident, ...): get_root, then the scan of the root it gave.
\* fs and flag: the folders and the flag as the call finds them.
step_episode_id(fs, ident, delay, strict_delay, reverse, flag, probeOk, fetchOk) ==
    LET g == get_root(fs, "shows", ident, flag, probeOk, fetchOk)
    IN  [g   |-> g,
         ret |-> IF g.err # "none" THEN StepRaised(g.err)
                 ELSE step_episode(RootOf(g.root), Date(now), delay,
                                   strict_delay, reverse)]

next_episode(fs, ident, delay, strict_delay, flag, probeOk, fetchOk) ==
    step_episode_id(fs, ident, delay, strict_delay, FALSE, flag, probeOk, fetchOk)

previous_episode(fs, ident, delay, strict_delay, flag, probeOk, fetchOk) ==
    step_episode_id(fs, ident, delay, strict_delay, TRUE, flag, probeOk, fetchOk)

\* The next-episode and previous-episode commands.
step_run(ident, r) ==
    AfterGR("shows", Str(ident), r.g, r.ret.err, r.ret.name)

\* check_followed_shows, from the i-th entry of os.listdir(STORAGE_DIR_NAME)
\* on.  acc: the folders and the flag as the i-th turn finds them, the
\* showids of the results yielded so far, the network events of the calls
\* of get_root so far and the exception that ended the generator.
RECURSIVE check_loop(_, _, _, _, _, _, _)
check_loop(acc, listdir, i, delay, strict_delay, probes, fetches) ==
    IF i > Len(listdir) \/ acc.err # "none" THEN acc
    ELSE LET root   == acc.fs.nameDir[listdir[i]].doc
             showid == root.key
             r      == next_episode(acc.fs, showid, delay, strict_delay,
                                    acc.flag, probes[i], fetches[i])
         IN  check_loop(
                 [fs      |-> [acc.fs EXCEPT !.nameDir = r.g.nameDir,
                                             !.cacheShows = r.g.cacheShows],
                  flag    |-> r.g.flag,
                  \* "number" in next_episode_data
                  yielded |-> IF r.ret.err = "none" /\ r.ret.found
                              THEN Append(acc.yielded, showid) ELSE acc.yielded,
                  events  |-> acc.events \o r.g.events,
                  err     |-> r.ret.err],
                 listdir, i + 1, delay, strict_delay, probes, fetches)

check_followed_shows(listdir, delay, strict_delay, probes, fetches) ==
    check_loop([fs |-> Stores, flag |-> FlagAtStart, yielded |-> <<>>,
                events |-> <<>>, err |-> "none"],
               listdir, 1, delay, strict_delay, probes, fetches)

\* Every entry of a cache folder is a regular file: each is unlinked.
remove_folder_content(folder) == [k \in {} |-> folder[k]]

\* clear_cache emptying the name-keyed permanent folder as well.
clear_cache_and_storage ==
    Out(remove_folder_content(nameDir), idDir, remove_folder_content(cacheShows),
        remove_folder_content(cacheResearch), FlagAtStart, "none", NoName, NoGR)

clear_cache ==
    Out(nameDir, idDir, remove_folder_content(cacheShows),
        remove_folder_content(cacheResearch),
        FlagAtStart, "none", NoName, NoGR)

----------------------------------------------------------------------------
(* The dispatcher: a ValueError raised by info, list-episodes,             *)
(* next-episode, previous-episode, follow, unfollow or refresh is caught   *)
(* and printed; any other exception ends the process with a traceback and  *)
(* a non-zero status.  search, check and clear-cache run outside any try.  *)

ValueErrors == {"InvalidIdentifier", "AlreadyFollowing", "NotFollowing"}

Guarded == {"info", "list_episodes", "next_episode", "previous_episode",
            "follow", "unfollow", "refresh"}

\* The exit status of the process.
main(op, out) ==
    IF out.err = "none"
    \* "You don't follow " + name raises TypeError when name is None
    THEN IF op = "unfollow" /\ out.ret = NoName THEN 1 ELSE 0
    ELSE IF op \in Guarded /\ out.err \in ValueErrors THEN 0
    ELSE 1

----------------------------------------------------------------------------------------------------------------------------------------------------------------------------------------------------
(* Bookkeeping of the last command, read by the properties only *)

Docs(dir) == [k \in DOMAIN dir |-> dir[k].doc]

NoFile == File(NoDoc, -1)

\* The cache entry a call of get_root looked at, as it was before the call.
Entry(gr) ==
    IF ~gr.called \/ ~gr.existed THEN NoFile
    ELSE IF gr.src = "permanent" THEN nameDir[idDir[gr.key]]
    ELSE IF gr.scope = "shows" THEN cacheShows[gr.key]
    ELSE cacheResearch[gr.key]

\* The same entry as the command leaves it.
EntryAfter(out) ==
    IF ~out.gr.called THEN NoFile
    ELSE IF out.gr.src = "permanent"
    THEN IF out.gr.key \in DOMAIN out.idDir
            /\ out.idDir[out.gr.key] \in DOMAIN out.nameDir
         THEN out.nameDir[out.idDir[out.gr.key]] ELSE NoFile
    ELSE IF out.gr.scope = "shows"
    THEN IF out.gr.key \in DOMAIN out.cacheShows
         THEN out.cacheShows[out.gr.key] ELSE NoFile
    ELSE IF out.gr.key \in DOMAIN out.cacheResearch
         THEN out.cacheResearch[out.gr.key] ELSE NoFile

Resolves == {"info", "search"}

OnId == {"info", "follow", "unfollow", "refresh"}

NoLast == [op |-> "none", err |-> "none", exit |-> 0,
           called |-> FALSE, scope |-> "none", key |-> <<>>, src |-> "none",
           existed |-> FALSE, stale |-> FALSE, events |-> <<>>,
           grErr |-> "none", root |-> NoDoc,
           followed |-> FALSE, linked |-> FALSE,
           permSame |-> TRUE, tempSame |-> TRUE, flagSame |-> TRUE,
           recordsSame |-> TRUE, permFetched |-> FALSE,
           rootIsEntry |-> FALSE, entrySame |-> TRUE,
           age |-> -1, days |-> -1,
           again |-> FALSE, sameRoot |-> FALSE]

NoRT == [on |-> FALSE, done |-> FALSE, id |-> <<>>, names |-> EmptyDir,
         ids |-> EmptyDir]

NoChk == [on |-> FALSE]

\* last: the command (op), the exception it raised (err) and the exit
\* status of the process; what its call of get_root did; whether arg was
\* followed before it (os.path.exists of the id-keyed record; linked: the
\* link was there, dangling or not); whether it left the permanent store, the
\* temporary caches and the flag as they were (recordsSame: the same id-keyed
\* records and the same name-keyed file names, whatever they hold), and
\* whether the permanent file of arg now holds what the service serves; whether the root it got is
\* the content the entry had before the call, and whether the entry is as it
\* was; the ticks and the calendar days between the last write of that
\* entry and the call; whether the command is a resolve that repeats the
\* successful resolve right before it, and whether both got the same root.
Apply(op, arg, out) ==
    LET g     == out.gr
        entry == Entry(g)
        again == /\ op \in Resolves
                 /\ last.op = op
                 /\ last.grErr = "none"
                 /\ last.key = g.key
    IN
    /\ nameDir' = out.nameDir
    /\ idDir' = out.idDir
    /\ cacheShows' = out.cacheShows
    /\ cacheResearch' = out.cacheResearch
    /\ glob_internet_connection_available' = out.flag
    /\ last' = [op |-> op, err |-> out.err, exit |-> main(op, out),
                called |-> g.called, scope |-> g.scope, key |-> g.key,
                src |-> g.src, existed |-> g.existed, stale |-> g.stale,
                events |-> g.events, grErr |-> g.err, root |-> g.root,
                followed |-> op \in OnId /\ ExistsId(arg),
                linked |-> op \in OnId /\ arg \in DOMAIN idDir,
                permSame |-> out.nameDir = nameDir /\ out.idDir = idDir,
                recordsSame |-> /\ out.idDir = idDir
                                /\ DOMAIN out.nameDir = DOMAIN nameDir,
                permFetched |-> /\ op \in OnId
                                /\ ExistsIn(out, arg)
                                /\ out.nameDir[out.idDir[arg]]
                                      = File(RemoteShow(arg), now),
                tempSame |-> /\ out.cacheShows = cacheShows
                             /\ out.cacheResearch = cacheResearch,
                flagSame |-> out.flag = FlagAtStart,
                rootIsEntry |-> g.called /\ g.existed /\ g.err = "none"
                                /\ g.root = entry.doc,
                entrySame |-> EntryAfter(out) = entry,
                age  |-> IF g.called /\ g.existed THEN now - entry.mtime ELSE -1,
                days |-> IF g.called /\ g.existed
                         THEN Date(now) - Date(entry.mtime) ELSE -1,
                again |-> again,
                sameRoot |-> again /\ g.err = "none" /\ g.root = last.root]
    /\ rt' = IF op = "follow" /\ out.err = "none"
             THEN [on |-> TRUE, done |-> FALSE, id |-> arg,
                   names |-> Docs(nameDir), ids |-> idDir]
             ELSE IF op = "unfollow" /\ out.err = "none"
                     /\ rt.on /\ ~rt.done /\ rt.id = arg
             THEN [rt EXCEPT !.done = TRUE]
             ELSE NoRT
    /\ chk' = NoChk
    /\ UNCHANGED <<now, catalog, stepVars>>

----------------
(* The state machine: one command per run of the script; between runs the  *)
(* clock advances.                                                         *)

StepIdle == [on |-> FALSE]

\* What the remote service may hold: the show of identifier 1 is named "A",
\* every other identifier is unknown to the service or names a show whose
\* name is the same, differs in case only, or differs.
Catalogs == {c \in [IdKeys -> NameVals] : c[Str(1)] = <<"A">>}

Init ==
    /\ nameDir = EmptyDir
    /\ idDir = EmptyDir
    /\ cacheShows = EmptyDir
    /\ cacheResearch = EmptyDir
    /\ glob_internet_connection_available = FALSE
    /\ now = 0
    /\ catalog \in Catalogs
    /\ last = NoLast
    /\ rt = NoRT
    /\ chk = NoChk
    /\ stepIn = StepIdle
    /\ stepOut = StepIdle
    /\ listOut = StepIdle

Search ==
    \E name \in Terms, probeOk \in BOOLEAN, fetchOk \in BOOLEAN :
        Apply("search", name, search(name, probeOk, fetchOk))

Info ==
    \E ident \in Ids, probeOk \in BOOLEAN, fetchOk \in BOOLEAN :
        Apply("info", Str(ident), info(ident, probeOk, fetchOk))

Follow ==
    \E ident \in Ids, probeOk \in BOOLEAN, fetchOk \in BOOLEAN :
        Apply("follow", Str(ident), follow(ident, probeOk, fetchOk))

Unfollow ==
    \E ident \in Ids, probeOk \in BOOLEAN, fetchOk \in BOOLEAN :
        Apply("unfollow", Str(ident), unfollow(ident, probeOk, fetchOk))

Refresh ==
    \E ident \in Ids, fetchOk \in BOOLEAN :
        Apply("refresh", Str(ident), refresh(ident, fetchOk))

ClearCache == Apply("clear_cache", <<>>, clear_cache)

ListEpisodesRun ==
    \E ident \in Ids, probeOk \in BOOLEAN, fetchOk \in BOOLEAN :
        Apply("list_episodes", Str(ident), list_episodes_run(ident, probeOk, fetchOk))

\* The next-episode and previous-episode commands print what the scan
\* returned and keep nothing of it: they are run without --delay and
\* without --strict_delay, that is with args.delay = 0 and
\* args.strict_delay = False.  The scan itself is run on every delay in
\* SpecStep and SpecDoc, and by the check command below.
DefaultDelay == 0

NextEpisode ==
    \E ident \in Ids, probeOk \in BOOLEAN, fetchOk \in BOOLEAN :
        Apply("next_episode", Str(ident),
              step_run(ident, next_episode(Stores, Str(ident), DefaultDelay, FALSE,
                                           FlagAtStart, probeOk, fetchOk)))

PreviousEpisode ==
    \E ident \in Ids, probeOk \in BOOLEAN, fetchOk \in BOOLEAN :
        Apply("previous_episode", Str(ident),
              step_run(ident, previous_episode(Stores, Str(ident), DefaultDelay,
                                               FALSE, FlagAtStart,
                                               probeOk, fetchOk)))

Delays == (-MaxDelay)..MaxDelay

\* os.listdir gives the entries of a folder in an order of its own.
ListDirs(dir) ==
    {l \in [1..Cardinality(DOMAIN dir) -> DOMAIN dir] :
        \A i, j \in DOMAIN l : l[i] = l[j] => i = j}

\* The check command.  chk keeps, next to what the generator did, the ids
\* that were followed when it started and those of them whose own
\* document has an episode the forward scan selects.
Check ==
    \E listdir \in ListDirs(nameDir), delay \in Delays, strict_delay \in BOOLEAN :
    \E probes \in [DOMAIN listdir -> BOOLEAN], fetches \in [DOMAIN listdir -> BOOLEAN] :
    \E c \in {check_followed_shows(listdir, delay, strict_delay, probes, fetches)} :
        LET followed == {k \in IdKeys : ExistsId(k)}
        IN  /\ nameDir' = c.fs.nameDir
            /\ cacheShows' = c.fs.cacheShows
            /\ glob_internet_connection_available' = c.flag
            /\ chk' = [on |-> TRUE, err |-> c.err, yielded |-> c.yielded,
                       events |-> c.events,
                       followed |-> followed,
                       expected |->
                          {k \in followed :
                              step_episode(RootOf(RemoteShow(k)), Date(now), delay,
                                           strict_delay, FALSE).found}]
            /\ last' = [NoLast EXCEPT !.op = "check", !.err = c.err,
                                      !.exit = IF c.err = "none" THEN 0 ELSE 1]
            /\ rt' = NoRT
            /\ UNCHANGED <<idDir, cacheResearch, now, catalog, stepVars>>

Tick ==
    /\ now < MaxTime
    /\ now' = now + 1
    /\ UNCHANGED <<nameDir, idDir, cacheShows, cacheResearch,
                   glob_internet_connection_available, catalog,
                   last, rt, chk, stepVars>>

Next ==
    \/ Search
    \/ Info
    \/ Follow
    \/ Unfollow
    \/ Refresh
    \/ ClearCache
    \/ Tick

Spec == Init /\ [][Next]_vars

\* The follow registry with the commands that read the episodes of a show.
NextCheck ==
    \/ Info
    \/ Follow
    \/ Unfollow
    \/ Refresh
    \/ ListEpisodesRun
    \/ NextEpisode
    \/ PreviousEpisode
    \/ Check
    \/ Tick

SpecCheck == Init /\ [][NextCheck]_vars

----------------------------------------------------------------------------
(* The documents the scan of SpecStep is run on *)

Roots ==
    {Root(<<"A">>, TRUE, Seasons(flat)) :
        flat \in {f \in Flats : \A i \in DOMAIN f : i = 1 => f[i][2]}}
    \cup {Root(<<"A">>, FALSE, <<>>), Root(NoName, FALSE, <<>>)}

StepInputs ==
    [root : Roots, today : 0..MaxDay, delay : (-MaxDelay)..MaxDelay,
     strict_delay : BOOLEAN, reverse : BOOLEAN]

InitStep ==
    /\ nameDir = EmptyDir
    /\ idDir = EmptyDir
    /\ cacheShows = EmptyDir
    /\ cacheResearch = EmptyDir
    /\ glob_internet_connection_available = FALSE
    /\ now = 0
    /\ catalog = [k \in IdKeys |-> <<"A">>]
    /\ last = NoLast
    /\ rt = NoRT
    /\ chk = NoChk
    /\ stepIn \in StepInputs
    /\ stepOut = StepIdle
    /\ listOut = StepIdle

StepEpisode ==
    /\ ~stepOut.on
    /\ stepOut' = step_episode(stepIn.root, stepIn.today, stepIn.delay,
                               stepIn.strict_delay, stepIn.reverse)
    /\ UNCHANGED <<fsVars, stepIn, listOut>>

NextStep == StepEpisode

SpecStep == InitStep /\ [][NextStep]_vars

----------------------------------------------------------------------------
(* The documents list_episodes and step_episode are run on in SpecDoc *)

\* The documents of SpecStep and those with an episode whose airdate element
\* holds no text or is not there, and the document without a name element.
AllAirDates == AirDates \cup {NoText, NoElement}

AllFlats == UNION {[1..n -> AllAirDates \X BOOLEAN] : n \in 0..MaxEpisodes}

AllRoots ==
    {Root(<<"A">>, TRUE, Seasons(flat)) :
        flat \in {f \in AllFlats : \A i \in DOMAIN f : i = 1 => f[i][2]}}
    \cup {Root(<<"A">>, FALSE, <<>>), Root(NoName, FALSE, <<>>),
          Root(Missing, FALSE, <<>>)}

DocInputs ==
    [root : AllRoots, today : 0..MaxDay, delay : (-MaxDelay)..MaxDelay,
     strict_delay : BOOLEAN, reverse : BOOLEAN]

InitDoc ==
    /\ nameDir = EmptyDir
    /\ idDir = EmptyDir
    /\ cacheShows = EmptyDir
    /\ cacheResearch = EmptyDir
    /\ glob_internet_connection_available = FALSE
    /\ now = 0
    /\ catalog = [k \in IdKeys |-> <<"A">>]
    /\ last = NoLast
    /\ rt = NoRT
    /\ chk = NoChk
    /\ stepIn \in DocInputs
    /\ stepOut = StepIdle
    /\ listOut = StepIdle

ListEpisodes ==
    /\ ~listOut.on
    /\ listOut' = LET ret == list_episodes(stepIn.root)
                  IN  [on |-> TRUE, ret |-> ret, raised |-> print_list_episodes(ret)]
    /\ UNCHANGED <<fsVars, stepIn, stepOut>>

NextDoc ==
    \/ StepEpisode
    \/ ListEpisodes

SpecDoc == InitDoc /\ [][NextDoc]_vars

----------------
(* Properties *)

Has(events, e) == \E i \in DOMAIN events : events[i] = e

\* C1: a successful follow(id) immediately followed by a successful
\* unfollow(id) leaves the permanent store (the id-keyed records, the
\* name-keyed records and their contents) as it was before the follow.
C1_RoundTrip ==
    rt.done => Docs(nameDir) = rt.names /\ idDir = rt.ids

\* C2: the id-keyed and the name-keyed permanent records are in one-to-one
\* correspondence: every id-keyed record points to a name-keyed payload that
\* exists, and every name-keyed payload is pointed to by exactly one id-keyed
\* record.
C2_OneToOne ==
    /\ \A k \in DOMAIN idDir : idDir[k] \in DOMAIN nameDir
    /\ \A n \in DOMAIN nameDir :
          Cardinality({k \in DOMAIN idDir : idDir[k] = n}) = 1

\* C3: follow(id) of an id that is followed fails with AlreadyFollowing and
\* changes nothing: the permanent store, the temporary caches and the
\* connectivity flag are as before, get_root is not called and the network
\* is not used.
C3_FollowTwice ==
    (last.op = "follow" /\ last.followed) =>
        /\ last.err = "AlreadyFollowing"
        /\ last.exit = 0
        /\ last.permSame /\ last.tempSame /\ last.flagSame
        /\ ~last.called
        /\ last.events = <<>>

C3_Witness ==
    /\ last.op = "follow" /\ last.followed
    /\ last.err = "AlreadyFollowing"
    /\ cacheShows # EmptyDir

\* C4: when the entry the resolver looks at exists and is stale and the
\* connection attempt of the probe fails, the resolver raises no error,
\* returns the cached copy, fetches nothing and leaves the entry as it was.
C4_StaleOffline ==
    (last.called /\ last.existed /\ last.stale
        /\ Has(last.events, "probe_fail")) =>
        /\ last.grErr = "none"
        /\ last.rootIsEntry
        /\ last.entrySame
        /\ ~Has(last.events, "fetch_ok") /\ ~Has(last.events, "fetch_fail")

\* C5, as claimed: a resolve that repeats the successful resolve right before
\* it, less than one day (TicksPerDay ticks) after the entry was written,
\* uses no network (no probe, no fetch) and returns the same content.
C5_Within24h ==
    (last.again /\ last.age < TicksPerDay) =>
        /\ last.events = <<>>
        /\ last.sameRoot

\* C5, amended: a resolve that repeats the successful resolve right before
\* it, fewer than CACHE_LIFETIME calendar days after the calendar day the
\* entry was written (that is, on the same day), uses no network (no probe,
\* no fetch), raises nothing and returns the same content.
C5_SameDay ==
    (last.again /\ last.days < CACHE_LIFETIME) =>
        /\ last.events = <<>>
        /\ last.grErr = "none"
        /\ last.sameRoot

C5_Witness ==
    /\ last.again /\ last.days < CACHE_LIFETIME
    /\ last.age > 0
    /\ last.sameRoot

\* C6: in show-by-id scope, when a permanent record exists for the key, the
\* resolver returns the content of the permanent record, fetches and
\* overwrites it exactly when it is stale and the probe reports the network
\* reachable, and leaves the temporary show cache alone.
C6_PermanentFirst ==
    (last.op = "info" /\ last.followed) =>
        /\ last.src = "permanent"
        /\ last.grErr = "none"
        /\ last.root = nameDir[idDir[last.key]].doc
        /\ Has(last.events, "fetch_ok") <=>
              (last.stale /\ Has(last.events, "probe_ok"))
        /\ last.tempSame

\* C7: clear-cache removes every entry of the two temporary caches and
\* leaves the id-keyed and the name-keyed permanent records and their
\* contents as they were.
C7_ClearCache ==
    last.op = "clear_cache" =>
        /\ cacheShows = EmptyDir
        /\ cacheResearch = EmptyDir
        /\ last.permSame
        /\ last.err = "none"

C7_Witness ==
    /\ last.op = "clear_cache"
    /\ ~last.tempSame
    /\ nameDir # EmptyDir /\ idDir # EmptyDir

\* C8: every error a command runs into is caught by the dispatcher and
\* printed: the process ends with the success status after every command.
C8_AllCaught ==
    last.exit = 0

\* C9: when the entry exists and is stale, the probe reports the network
\* reachable and the fetch then fails, the resolver raises no error, returns
\* the stale copy and leaves the entry as it was.
C9_RefreshFailureSwallowed ==
    (last.called /\ last.existed /\ last.stale
        /\ Has(last.events, "probe_ok") /\ Has(last.events, "fetch_fail")) =>
        /\ last.grErr = "none"
        /\ last.rootIsEntry
        /\ last.entrySame

\* C10: step_episode returns the first episode in scan order (document order
\* of the seasons and then of the episodes; the exact reverse when reverse
\* is set) whose air date d satisfies d >= today + delay (forward), d <=
\* today - delay (reverse) or, when strict, d = the comparison date; it
\* returns name and status only if and only if no episode satisfies it.
C10_Positions ==
    {p \in (1..MaxEpisodes) \X (1..MaxEpisodes) :
        /\ p[1] \in DOMAIN stepIn.root.seasons
        /\ p[2] \in DOMAIN stepIn.root.seasons[p[1]].episodes}

C10_Episode(p) == stepIn.root.seasons[p[1]].episodes[p[2]]

C10_CompDate ==
    IF stepIn.reverse THEN stepIn.today - stepIn.delay
                      ELSE stepIn.today + stepIn.delay

C10_Satisfies(p) ==
    LET d == C10_Episode(p).airdate
    IN  /\ d \in 0..MaxDay
        /\ IF stepIn.strict_delay THEN d = C10_CompDate
           ELSE IF stepIn.reverse THEN d <= C10_CompDate
           ELSE d >= C10_CompDate

\* p comes before q in the order of the scan
C10_Before(p, q) ==
    LET docOrder(a, b) == a[1] < b[1] \/ (a[1] = b[1] /\ a[2] < b[2])
    IN  IF stepIn.reverse THEN docOrder(q, p) ELSE docOrder(p, q)

C10_FirstMatch ==
    (stepOut.on /\ stepIn.root.name # NoName) =>
        /\ stepOut.err = "none"
        /\ stepOut.found <=> (\E p \in C10_Positions : C10_Satisfies(p))
        /\ stepOut.found =>
              \E p \in C10_Positions :
                  /\ C10_Satisfies(p)
                  /\ \A q \in C10_Positions : C10_Satisfies(q) => ~C10_Before(q, p)
                  /\ stepOut.title = C10_Episode(p).title
                  /\ stepOut.air_date = C10_Episode(p).airdate
                  /\ stepOut.season = stepIn.root.seasons[p[1]].no
                  /\ stepOut.number = Str(p[2])
        /\ ~stepOut.found => stepOut = StatusOnly(stepIn.root)

\* The scan ran backwards with delay 0 over two seasons, several episodes
\* satisfy the condition and the one returned is not the last of the document.
C10_Witness ==
    /\ stepOut.on /\ stepOut.found
    /\ stepIn.reverse /\ ~stepIn.strict_delay /\ stepIn.delay = 0
    /\ Len(stepIn.root.seasons) = 2
    /\ Cardinality({p \in C10_Positions : C10_Satisfies(p)}) >= 2
    /\ \E p \in C10_Positions : ~C10_Satisfies(p) /\ C10_Episode(p).airdate # Malformed

\* C11: in step_episode an episode whose air date is no calendar date
\* (malformed text, an airdate element without text, no airdate element) is
\* skipped: the scan raises nothing because of it, and what it returns is
\* what the same scan returns on the document without those episodes.
C11_Parsable(episode) == episode.airdate \in 0..MaxDay

C11_WithoutUnparsable(root) ==
    [root EXCEPT !.seasons =
        [s \in DOMAIN root.seasons |->
            [root.seasons[s] EXCEPT !.episodes = SelectSeq(@, C11_Parsable)]]]

C11_SkipUnparsable ==
    (stepOut.on /\ stepIn.root.name \notin {NoName, Missing}) =>
        /\ stepOut.err = "none"
        /\ stepOut = step_episode(C11_WithoutUnparsable(stepIn.root), stepIn.today,
                                  stepIn.delay, stepIn.strict_delay, stepIn.reverse)

\* C12: list_episodes on a document that has a name and no Episodelist
\* element raises nothing and returns a result with an empty season mapping,
\* and the list-episodes command ends without an exception.
C12_NoEpisodeList ==
    (listOut.on /\ stepIn.root.name \notin {NoName, Missing}
        /\ ~stepIn.root.has_list) =>
        /\ listOut.ret.err = "none"
        /\ listOut.ret.has_seasons
        /\ listOut.ret.seasons = <<>>
        /\ listOut.raised = "none"

\* C14: refresh(id) fails with NotFollowing when there is no id-keyed record,
\* and then changes nothing and fetches nothing; when there is one it
\* attempts a fetch whatever the age of the record and the flag, and a fetch
\* that succeeds leaves the fetched document in the permanent file the record
\* points to, with the same id-keyed and name-keyed records and the same
\* temporary caches.
C14_Refresh ==
    last.op = "refresh" =>
        IF ~last.linked
        THEN /\ last.err = "NotFollowing"
             /\ last.permSame /\ last.tempSame
             /\ last.events = <<>>
        ELSE /\ last.events # <<>>
             /\ last.recordsSame /\ last.tempSame
             /\ Has(last.events, "fetch_ok") =>
                   /\ last.err = "none"
                   /\ last.permFetched

\* C17, as claimed: an entry the resolver finds is treated as stale (the
\* staleness test holds and the resolver turns to the network) if and only
\* if at least TicksPerDay ticks, one day of elapsed time, have passed since
\* it was written.
C17_Elapsed24h ==
    (last.called /\ last.existed) =>
        /\ last.stale <=> last.age >= CACHE_LIFETIME * TicksPerDay
        /\ last.events # <<>> <=> last.age >= CACHE_LIFETIME * TicksPerDay

\* C17, amended: an entry the resolver finds is treated as stale if and only
\* if the calendar day of the lookup is at least CACHE_LIFETIME calendar days
\* after the calendar day of its last write, whatever the time elapsed.
C17_CalendarDay ==
    (last.called /\ last.existed) =>
        /\ last.stale <=> last.days >= CACHE_LIFETIME
        /\ last.events # <<>> <=> last.days >= CACHE_LIFETIME

\* The entry was written less than a day of elapsed time before the lookup
\* and is treated as stale.
C17_Witness ==
    /\ last.called /\ last.existed
    /\ last.stale /\ last.events # <<>>
    /\ last.age < CACHE_LIFETIME * TicksPerDay

\* C18: for every followed id, the permanent document the resolver reads for
\* the show-by-id lookup of that id is the document of that show: its showid
\* is the id.
C18_OwnDocument ==
    \A k \in IdKeys : ExistsId(k) => nameDir[idDir[k]].doc.key = k

\* C19: a follow or an unfollow that ends in an error leaves the id-keyed and
\* the name-keyed permanent stores as they were before the call.
C19_Atomic ==
    (last.op \in {"follow", "unfollow"} /\ last.err # "none") => last.permSame

\* C13: in every process the flag starts unset, so the first call of the
\* probe makes a connection attempt; after an attempt that succeeds the flag
\* is set, no later call makes an attempt and each reports the network
\* reachable; a call whose attempt fails returns (it reports the network
\* unreachable: the resolver goes on without an error) and leaves the flag
\* unset.  log: the network events of a process in order; err: the
\* exception that ended it.
C13_Attempts == {"probe_ok", "probe_fail"}

C13_Memoized(log, err) ==
    /\ \A i \in DOMAIN log :
          log[i] = "probe_memo" => \E h \in 1..(i - 1) : log[h] = "probe_ok"
    /\ \A i, j \in DOMAIN log :
          (i < j /\ log[i] = "probe_ok") => log[j] \notin C13_Attempts
    /\ Has(log, "probe_ok") => glob_internet_connection_available
    /\ Has(log, "probe_fail") =>
          /\ err # "AttributeError"
          /\ Has(log, "probe_ok") \/ ~glob_internet_connection_available

C13_ProbeMemo ==
    /\ last.op \notin {"none", "check"} => C13_Memoized(last.events, last.grErr)
    /\ chk.on => C13_Memoized(chk.events, chk.err)

\* C15: when the document get_root gives has no name (no name element, or a
\* name element without text), info, list_episodes, step_episode and follow
\* raise the ValueError "Invalid identifier", which the dispatcher prints,
\* and follow leaves the permanent store as it was.
C15_InvalidIdentifier ==
    (last.op \in {"info", "list_episodes", "next_episode", "previous_episode",
                  "follow"}
        /\ last.called /\ last.grErr = "none"
        /\ last.root.name \in {NoName, Missing}) =>
        /\ last.err = "InvalidIdentifier"
        /\ last.exit = 0
        /\ last.op = "follow" => last.permSame

\* C16: check_followed_shows yields one result for each followed id whose
\* document has an episode the forward scan selects and nothing else: no
\* such id is missing, none comes twice, and there are no more results than
\* followed ids.
C16_Yielded == {chk.yielded[i] : i \in DOMAIN chk.yielded}

C16_CheckFollowed ==
    chk.on =>
        /\ chk.err = "none"
        /\ C16_Yielded = chk.expected
        /\ Len(chk.yielded) = Cardinality(chk.expected)
        /\ Len(chk.yielded) <= Cardinality(chk.followed)

====
